---- MODULE Spec2Model ----
(***************************************************************************)
(* A model of the HORECA finder's components:                              *)
(*   - AIClassifier.classify_all / classify_batch (src/src/ai_classifier.py)*)
(*     together with FileManager.save_csv / load_csv (src/src/utils.py),   *)
(*     specifications Spec and SpecCrash;                                  *)
(*   - Deduplicator (src/src/utils.py), specifications SpecDedup,          *)
(*     SpecPhone, SpecPair and SpecName;                                   *)
(*   - FileManager.save_csv then load_csv with the order of the keys kept, *)
(*     specification SpecCsv;                                              *)
(*   - main (src/src/nrw_frozen_food_warehouse_finder.py), specification   *)
(*     SpecMain, and its final filter and sort, specification SpecFinal.   *)
(* A Python dict is a TLA+ function whose DOMAIN is the dict's key set.    *)
(* A scalar is held as the string csv.DictWriter writes for it ("8" for    *)
(* the JSON number 8); Python's None is the distinguished value PyNone.    *)
(***************************************************************************)
EXTENDS Integers, Sequences, FiniteSets, TLC

VARIABLES
    \* ---- classify_all (Spec) ----
    records,            \* the record list handed to classify_all
    api_key,            \* self.api_key is set (TRUE) or empty (FALSE)
    file,               \* the checkpoint file output_file
    pc,                 \* where the current classify_all run stands
    resume,             \* the resume argument of the current run
    classified_leads,   \* the accumulator
    remaining_records,  \* the work queue
    i,                  \* the batch loop's index into remaining_records
    batch_results,      \* what classify_batch returned for the current batch
    outcome,            \* history: kind of the current batch's oracle outcome
    calls,              \* history: oracle requests issued by the current run
    writes,             \* history: completed save_csv calls of the current run
    prev_complete,      \* history: the previous run returned after writing the checkpoint
    submitted,          \* history: UIDs sent to the oracle since the last run without resume
    resubmitted,        \* history: a UID was sent to the oracle a second time
    checkpointed,       \* history: rows the run loaded or its last completed Checkpoint wrote
    interrupted,        \* history: UIDs of the input records of the batches that runs
                        \* which then died had checkpointed
    failed,             \* history: UIDs of the records whose latest oracle call raised
    \* ---- Deduplicator.deduplicate (SpecDedup) ----
    d_records,          \* the records argument
    d_threshold,        \* the threshold argument
    d_pc,               \* "off", "loop" (the outer for loop), "done" (returned) or "raised"
    d_i,                \* the outer loop's position in d_records (from 1)
    unique_records,     \* the list being built and returned
    seen_indices,       \* positions kept or suppressed so far
    d_kept,             \* history: the positions appended to unique_records, in order
    d_rep,              \* history: position -> position of its representative
    d_compared,         \* history: the pairs <<left, right>> handed to is_duplicate
    d_pass,             \* 1: the call on the input, 2: the call on its own output
    d_input,            \* history: the records of the first call
    d_first,            \* history: what the first call returned
    \* ---- normalize_phone and the phone rule of is_duplicate (SpecPhone) ----
    ph_pc,              \* "off", "start", "normalized" or "done"
    ph_1, ph_2,         \* the two phone strings
    ph_n1, ph_n2,       \* their normalized forms
    ph_dup,             \* is_duplicate of two records that carry them
    \* ---- Deduplicator.is_duplicate on one pair of records (SpecPair) ----
    pr_pc,              \* "off", "start", "done" (returned) or "raised"
    pr_1, pr_2,         \* record1 and record2
    pr_threshold,       \* threshold
    pr_dup,             \* what is_duplicate returned
    \* ---- Deduplicator.normalize_company_name (SpecName) ----
    nm_pc,              \* "off", "start" or "done"
    nm_name,            \* a company name X
    nm_out,             \* normalize_company_name(X)
    nm_gmbh,            \* normalize_company_name(X + " gmbh")
    nm_sarl,            \* normalize_company_name(X + " sarl")
    \* ---- FileManager.save_csv then load_csv, key order kept (SpecCsv) ----
    cs_pc,              \* "off", "start", "written", "raised" or "loaded"
    cs_module,          \* the module whose FileManager is called
    cs_records,         \* the list handed to save_csv
    cs_file,            \* the file at filepath
    cs_loaded,          \* what load_csv returned
    \* ---- the final filter and sort of main (SpecFinal) ----
    fin_pc,             \* "off", "start", "done" or "raised"
    fin_classified,     \* classified_leads, what classify_all returned
    final_leads,        \* the filtered and sorted list
    \* ---- main, the orchestrator (SpecMain) ----
    m_pc,               \* "off", "start", "halted", "search", "dedup", "classify",
                        \* "save_final" or "complete"
    args_resume,        \* args.resume
    enable_ai,          \* Config.ENABLE_AI_CLASSIFICATION
    maps_key,           \* whether Config.GOOGLE_MAPS_API_KEY is configured
    raw_file,           \* Config.RAW_LEADS_FILE
    deduped_file,       \* Config.DEDUPED_LEADS_FILE
    final_file,         \* Config.FINAL_PROSPECTS_FILE
    raw_leads,          \* main's raw_leads
    deduped_leads,      \* main's deduped_leads
    searched,           \* history: the run made its search calls
    deduplicated        \* history: the run called Deduplicator.deduplicate

cvars == <<records, api_key, file, pc, resume, classified_leads, remaining_records,
           i, batch_results, outcome, calls, writes, prev_complete, submitted,
           resubmitted, checkpointed, interrupted, failed>>

dvars == <<d_records, d_threshold, d_pc, d_i, unique_records, seen_indices, d_kept,
           d_rep, d_compared, d_pass, d_input, d_first>>

pvars == <<ph_pc, ph_1, ph_2, ph_n1, ph_n2, ph_dup>>

qvars == <<pr_pc, pr_1, pr_2, pr_threshold, pr_dup>>

nvars == <<nm_pc, nm_name, nm_out, nm_gmbh, nm_sarl>>

wvars == <<cs_pc, cs_module, cs_records, cs_file, cs_loaded>>

fvars == <<fin_pc, fin_classified, final_leads>>

mvars == <<m_pc, args_resume, enable_ai, maps_key, raw_file, deduped_file, final_file,
           raw_leads, deduped_leads, searched, deduplicated>>

vars == <<cvars, dvars, pvars, qvars, nvars, wvars, fvars, mvars>>

\* what the steps of one component leave alone
besides_c == <<dvars, pvars, qvars, nvars, wvars, fvars, mvars>>
besides_d == <<cvars, pvars, qvars, nvars, wvars, fvars, mvars>>
besides_p == <<cvars, dvars, qvars, nvars, wvars, fvars, mvars>>
besides_q == <<cvars, dvars, pvars, nvars, wvars, fvars, mvars>>
besides_n == <<cvars, dvars, pvars, qvars, wvars, fvars, mvars>>
besides_w == <<cvars, dvars, pvars, qvars, nvars, fvars, mvars>>
besides_f == <<cvars, dvars, pvars, qvars, nvars, wvars, mvars>>

----------------------------------------------------------------------------
(* Bounds of the model. *)
MaxRecords == 3
BatchSize == 2
MaxFileRows == 3
MaxDedup == 3
MaxPhoneLen == 2
MaxFinal == 4
MaxSearch == 2

----------------------------------------------------------------------------
(* Python values and dicts. *)
PyNone == "<None>"

SENTINEL == "Error/Skipped in batch"

EmptyDict == <<>>

\* dict.get(k)
Get(r, k) == IF k \in DOMAIN r THEN r[k] ELSE PyNone

\* bool(v) of a scalar
Truthy(v) == v # PyNone /\ v # ""

\* str(v) inside an f-string
FStr(v) == IF v = PyNone THEN "None" ELSE v

\* uid = r.get("id") or f"{r.get('company_name')}_{r.get('city')}"
Uid(r) ==
    IF Truthy(Get(r, "id"))
    THEN Get(r, "id")
    ELSE FStr(Get(r, "company_name")) \o "_" \o FStr(Get(r, "city"))

\* record.update(res)
Update(r, res) ==
    [k \in (DOMAIN r) \cup (DOMAIN res) |-> IF k \in DOMAIN res THEN res[k] ELSE r[k]]

\* record["contact_recommendation"] = "Error/Skipped in batch"
MarkSentinel(r) == Update(r, [contact_recommendation |-> SENTINEL])

----------------------------------------------------------------------------
(* FileManager: the file is absent, or holds a header and rows.  A file   *)
(* opened for writing and not yet written has no header and no rows.      *)
NoFile == [exists |-> FALSE, header |-> {}, rows |-> <<>>]

TruncatedFile == [exists |-> TRUE, header |-> {}, rows |-> <<>>]

\* a file cut inside a character: its bytes are not valid UTF-8
UndecodableFile ==
    [exists |-> TRUE, header |-> {}, rows |-> <<>>, undecodable |-> TRUE]

\* csv.DictWriter's cell: None is written as the empty string
CsvCell(v) == IF v = PyNone THEN "" ELSE v

\* one row under fieldnames: missing keys are written empty (restval),
\* keys outside fieldnames are dropped (extrasaction="ignore")
CsvRow(fieldnames, r) == [k \in fieldnames |-> CsvCell(Get(r, k))]

\* a save_csv that opens the file for appending: the rows already there stay
save_csv_append(recs, f) ==
    IF recs = <<>>
    THEN f
    ELSE [exists |-> TRUE,
          header |-> DOMAIN recs[1],
          rows   |-> f.rows \o [n \in 1..Len(recs) |-> CsvRow(DOMAIN recs[1], recs[n])]]

\* the file a completed save_csv(recs, filepath) leaves, f being the file before
save_csv(recs, f) ==
    IF recs = <<>>
    THEN f
    ELSE [exists |-> TRUE,
          header |-> DOMAIN recs[1],
          rows   |-> [n \in 1..Len(recs) |-> CsvRow(DOMAIN recs[1], recs[n])]]

\* a reader that takes the first row after the header for the header
load_csv_headerless(f) == IF f.rows = <<>> THEN <<>> ELSE Tail(f.rows)

\* load_csv(filepath): csv.DictReader's rows
load_csv(f) == f.rows

\* load_csv(filepath) raises: reading the file fails with UnicodeDecodeError
load_csv_raises(f) == "undecodable" \in DOMAIN f

\* the file with its columns in their order: header is the header line's
\* column names, rows the cells of each line after it
NoOrderedFile == [exists |-> FALSE, header |-> <<>>, rows |-> <<>>]

----------------------------------------------------------------------------
(* Inputs of classify_all.  A record as the search stage builds it         *)
(* (GoogleMapsScraper._parse_place): id is the provider's id or None,      *)
(* company_name and city are strings.                                      *)
IdValues == {PyNone, "p1"}
CityValues == {"x"}

RecordDomain ==
    {[id |-> idv, company_name |-> "a", city |-> c] : idv \in IdValues, c \in CityValues}

SeqsUpTo(S, n) == UNION {[1..m -> S] : m \in 0..n}

RecordLists == SeqsUpTo(RecordDomain, MaxRecords)

Min(a, b) == IF a < b THEN a ELSE b

----------------------------------------------------------------------------
(* The oracle.  What json.loads can hand back: a list whose elements are   *)
(* objects or other JSON values, or a value that is no list at all; or the *)
(* call raises (transport error, non-success status, unparseable text).    *)
ObjElem(d) == [t |-> "obj", f |-> d]
TruthyScalar == [t |-> "truthy", f |-> EmptyDict]   \* e.g. "x", 5, true
FalsyScalar == [t |-> "falsy", f |-> EmptyDict]     \* e.g. "", 0, null, false

EnrichmentObjects ==
    {EmptyDict, [priority_score |-> "8"], [id |-> "p2"]}

Elements == {ObjElem(d) : d \in EnrichmentObjects} \cup {TruthyScalar, FalsyScalar}

JsonList(es) == [kind |-> "list", elems |-> es]
JsonOther(k) == [kind |-> k, elems |-> <<>>]

NonListKinds == {"number", "null", "string", "object", "empty_object"}

\* the outcomes of one oracle call for a batch of n records
OracleOutcomes(n) ==
    {JsonList(es) : es \in SeqsUpTo(Elements, n)}
      \cup {JsonOther(k) : k \in NonListKinds}
      \cup {JsonOther("error")}

\* the response is a list of objects, the shape the oracle contract expects
IsObjectList(v) ==
    v.kind = "list" /\ \A j \in 1..Len(v.elems) : v.elems[j].t = "obj"

\* [{}] * len(records)
EmptyResults(n) == JsonList([j \in 1..n |-> ObjElem(EmptyDict)])

\* classify_batch: without an api key, or when the call or json.loads raises,
\* [{}] * len(records); otherwise whatever json.loads returned
classify_batch(batch, has_key, resp) ==
    IF ~has_key \/ resp.kind = "error"
    THEN EmptyResults(Len(batch))
    ELSE resp

\* bool(res) for an element of the response
ElemTruthy(e) == IF e.t = "obj" THEN DOMAIN e.f # {} ELSE e.t = "truthy"

\* the Merge loop raises: len() of a number or null, batch_results[0] of a
\* string (update of a 1-character string) or of a non-empty object (KeyError),
\* record.update(res) of a truthy value that is no object
MergeRaises(results, n) ==
    CASE results.kind \in {"number", "null"} -> TRUE
      [] results.kind \in {"string", "object"} -> n >= 1
      [] results.kind = "empty_object" -> FALSE
      [] OTHER ->
           \E j \in 1..Min(n, Len(results.elems)) : results.elems[j].t = "truthy"

\* ResultAt with the index off by one
ResultAt_shifted(results, j) ==
    IF results.kind = "list" /\ j + 1 <= Len(results.elems)
    THEN results.elems[j + 1]
    ELSE ObjElem(EmptyDict)

\* res = {}; if j < len(batch_results): res = batch_results[j]
ResultAt(results, j) ==
    IF results.kind = "list" /\ j <= Len(results.elems)
    THEN results.elems[j]
    ELSE ObjElem(EmptyDict)

\* one pass of the Merge loop body for the record at batch position j (from 1)
MergeRecord(record, results, j) ==
    IF ElemTruthy(ResultAt(results, j))
    THEN Update(record, ResultAt(results, j).f)
    ELSE MarkSentinel(record)

\* the records the Merge loop appends for a batch
MergeBatch(batch, results) ==
    [j \in 1..Len(batch) |-> MergeRecord(batch[j], results, j)]

\* batch_records = remaining_records[i : i + batch_size]
BatchAt(remaining, k) == SubSeq(remaining, k + 1, Min(k + BatchSize, Len(remaining)))

UidsOf(recs) == {Uid(recs[n]) : n \in 1..Len(recs)}

NoDupUids(recs) ==
    \A m, n \in 1..Len(recs) : m # n => Uid(recs[m]) # Uid(recs[n])

\* a work queue that looks the id alone up in processed_ids
Remaining_by_id(recs, processed_ids) ==
    SelectSeq(recs, LAMBDA r : Get(r, "id") \notin processed_ids)

\* the work queue: the records whose uid is not in processed_ids, in order
Remaining(recs, processed_ids) ==
    SelectSeq(recs, LAMBDA r : Uid(r) \notin processed_ids)

----------------------------------------------------------------------------
(* classify_all as a state machine. *)
\* the other components at rest
ClassifierIdle ==
    /\ records = <<>>
    /\ api_key = FALSE
    /\ file = NoFile
    /\ pc = "off"
    /\ resume = TRUE
    /\ classified_leads = <<>>
    /\ remaining_records = <<>>
    /\ i = 0
    /\ batch_results = JsonList(<<>>)
    /\ outcome = "none"
    /\ submitted = {}
    /\ resubmitted = FALSE
    /\ calls = 0
    /\ writes = 0
    /\ prev_complete = FALSE
    /\ checkpointed = <<>>
    /\ interrupted = {}
    /\ failed = {}

DedupIdle ==
    /\ d_records = <<>>
    /\ d_threshold = 0
    /\ d_pc = "off"
    /\ d_i = 0
    /\ unique_records = <<>>
    /\ seen_indices = {}
    /\ d_kept = <<>>
    /\ d_rep = <<>>
    /\ d_compared = {}
    /\ d_pass = 0
    /\ d_input = <<>>
    /\ d_first = <<>>

PhoneIdle ==
    /\ ph_pc = "off"
    /\ ph_1 = <<>>
    /\ ph_2 = <<>>
    /\ ph_n1 = <<>>
    /\ ph_n2 = <<>>
    /\ ph_dup = FALSE

PairIdle ==
    /\ pr_pc = "off"
    /\ pr_1 = EmptyDict
    /\ pr_2 = EmptyDict
    /\ pr_threshold = 0
    /\ pr_dup = FALSE

NameIdle ==
    /\ nm_pc = "off"
    /\ nm_name = <<>>
    /\ nm_out = <<>>
    /\ nm_gmbh = <<>>
    /\ nm_sarl = <<>>

CsvIdle ==
    /\ cs_pc = "off"
    /\ cs_module = "utils"
    /\ cs_records = <<>>
    /\ cs_file = NoOrderedFile
    /\ cs_loaded = <<>>

FinalIdle ==
    /\ fin_pc = "off"
    /\ fin_classified = <<>>
    /\ final_leads = <<>>

MainIdle ==
    /\ m_pc = "off"
    /\ args_resume = FALSE
    /\ enable_ai = FALSE
    /\ maps_key = FALSE
    /\ raw_file = NoFile
    /\ deduped_file = NoFile
    /\ final_file = NoFile
    /\ raw_leads = <<>>
    /\ deduped_leads = <<>>
    /\ searched = FALSE
    /\ deduplicated = FALSE

\* classify_all is about to be called on one of the inputs, no checkpoint
\* file being there yet
InitOn(inputs) ==
    /\ DedupIdle
    /\ PhoneIdle
    /\ PairIdle
    /\ NameIdle
    /\ CsvIdle
    /\ FinalIdle
    /\ MainIdle
    /\ records \in inputs
    /\ api_key \in BOOLEAN
    /\ file = NoFile
    /\ pc = "idle"
    /\ resume = TRUE
    /\ classified_leads = <<>>
    /\ remaining_records = <<>>
    /\ i = 0
    /\ batch_results = JsonList(<<>>)
    /\ outcome = "none"
    /\ submitted = {}
    /\ resubmitted = FALSE
    /\ calls = 0
    /\ writes = 0
    /\ prev_complete = FALSE
    /\ checkpointed = <<>>
    /\ interrupted = {}
    /\ failed = {}

Init == InitOn(RecordLists)

\* a classify_all that enters its batch loop whatever the work queue holds
after_partition_loop(todo) == "loop"

\* if not remaining_records: return classified_leads
after_partition(todo) == IF todo = <<>> THEN "done" ELSE "loop"

\* Init, Partition and Terminal-empty of classify_all(recs, ..., resume=res)
ClassifyAllEntry(recs, res) ==
    /\ LET loaded == IF res /\ file.exists THEN load_csv(file) ELSE <<>>
           todo == Remaining(recs, UidsOf(loaded))
           raises == res /\ file.exists /\ load_csv_raises(file)
       IN /\ Len(loaded) + Len(todo) <= MaxFileRows
          /\ resume' = res
          /\ classified_leads' = loaded
          /\ remaining_records' = IF raises THEN <<>> ELSE todo
          /\ pc' = IF raises THEN "aborted" ELSE after_partition(todo)
          /\ checkpointed' = loaded
          /\ submitted' = IF res THEN submitted ELSE {}
          /\ resubmitted' = IF res THEN resubmitted ELSE FALSE
          /\ interrupted' = IF res /\ pc = "crashed" THEN interrupted ELSE {}
          /\ failed' = IF res THEN failed ELSE {}
    /\ i' = 0
    /\ batch_results' = JsonList(<<>>)
    /\ outcome' = "none"
    /\ calls' = 0
    /\ writes' = 0
    /\ prev_complete' = (pc = "done" /\ writes > 0)

\* a call of classify_all on the same records, with resume on or off
ClassifyAllStart ==
    /\ pc \in {"idle", "done", "aborted", "crashed"}
    /\ \E res \in BOOLEAN : ClassifyAllEntry(records, res)
    /\ UNCHANGED <<records, api_key, file, besides_c>>

\* one batch: the oracle call, Merge and Append
ClassifyBatch ==
    /\ pc = "loop"
    /\ LET batch == BatchAt(remaining_records, i)
           n == Len(batch)
       IN \E resp \in IF api_key THEN OracleOutcomes(n) ELSE {JsonOther("error")} :
            LET results == classify_batch(batch, api_key, resp)
            IN /\ batch_results' = results
               /\ submitted' = IF api_key THEN submitted \cup UidsOf(batch) ELSE submitted
               /\ resubmitted' =
                    (resubmitted \/
                       (api_key /\ (UidsOf(batch) \cap submitted # {} \/ ~NoDupUids(batch))))
               /\ IF MergeRaises(results, n)
                  THEN /\ pc' = "aborted"
                       /\ classified_leads' = <<>>
                       /\ remaining_records' = <<>>
                       /\ i' = 0
                  ELSE /\ pc' = "save"
                       /\ classified_leads' = classified_leads \o MergeBatch(batch, results)
                       /\ UNCHANGED <<remaining_records, i>>
               /\ outcome' = IF ~api_key THEN "nokey"
                             ELSE IF resp.kind = "error" THEN "error"
                             ELSE IF IsObjectList(resp) THEN "list"
                             ELSE "shape"
               /\ calls' = IF api_key THEN calls + 1 ELSE calls
               /\ failed' = IF ~api_key THEN failed
                            ELSE IF resp.kind = "error" THEN failed \cup UidsOf(batch)
                            ELSE failed \ UidsOf(batch)
    /\ UNCHANGED <<records, api_key, file, resume, writes, prev_complete, checkpointed,
                   interrupted, besides_c>>

\* Checkpoint (and Throttle): save_csv(classified_leads, output_file) completes
SaveCheckpoint ==
    /\ pc = "save"
    /\ file' = save_csv(classified_leads, file)
    /\ checkpointed' = file'.rows
    /\ writes' = writes + 1
    /\ i' = i + BatchSize
    /\ pc' = IF i + BatchSize >= Len(remaining_records) THEN "done" ELSE "loop"
    /\ batch_results' = JsonList(<<>>)
    /\ outcome' = "none"
    /\ UNCHANGED <<records, api_key, resume, classified_leads, remaining_records,
                   calls, prev_complete, submitted, resubmitted, interrupted, failed,
                   besides_c>>

\* what a save_csv that does not complete can leave on disk: the file as it
\* was (not yet opened), the file truncated by open(filepath, "w"), the
\* header and a proper prefix of the rows, or bytes that end inside a character
TornFiles(recs, f) ==
    {f, TruncatedFile, UndecodableFile}
      \cup {[save_csv(recs, f) EXCEPT !.rows = SubSeq(@, 1, k)] : k \in 0..(Len(recs) - 1)}

\* the process dies during a run; its memory is lost
Crash ==
    /\ pc \in {"loop", "save"}
    /\ file' \in IF pc = "save" THEN TornFiles(classified_leads, file) ELSE {file}
    /\ pc' = "crashed"
    /\ interrupted' = interrupted \cup UidsOf(SubSeq(remaining_records, 1, i))
    /\ classified_leads' = <<>>
    /\ remaining_records' = <<>>
    /\ i' = 0
    /\ UNCHANGED <<records, api_key, resume, batch_results, outcome, calls, writes,
                   prev_complete, submitted, resubmitted, checkpointed, failed, besides_c>>

\* runs that are not interrupted
Next == ClassifyAllStart \/ ClassifyBatch \/ SaveCheckpoint

Spec == Init /\ [][Next]_vars

\* runs that the process's death may interrupt, on the output of the
\* Deduplicator: records of three businesses, no two with the same UID
NextCrash == ClassifyAllStart \/ ClassifyBatch \/ SaveCheckpoint \/ Crash

DistinctRecordLists ==
    {l \in SeqsUpTo(RecordDomain \cup {[id |-> PyNone, company_name |-> "b", city |-> "x"]},
                    MaxRecords) : NoDupUids(l)}

InitCrash == InitOn(DistinctRecordLists)

SpecCrash == InitCrash /\ [][NextCrash]_vars

----------------------------------------------------------------------------
(* Deduplicator (src/src/utils.py).  company_name, city and phone are      *)
(* strings held as sequences of one-character strings, so that the         *)
(* normalisations work on characters as the code's regular expressions do; *)
(* id and website are only compared for equality and stay atomic.          *)

\* the characters of the model's strings, in code point order
CHARS ==
    <<" ", "(", ")", "+", "-", ".",
      "0", "1", "2", "3", "4", "5", "6", "7", "8", "9",
      "A", "B", "C", "D", "G", "H", "M", "S", "X",
      "a", "b", "c", "d", "e", "g", "h", "i", "l", "m", "n", "p", "q", "r",
      "s", "t", "u", "v", "x", "y", "z">>

Ord(c) == CHOOSE n \in 1..Len(CHARS) : CHARS[n] = c

UPPER == <<"A", "B", "C", "D", "G", "H", "M", "S", "X">>
LOWER == <<"a", "b", "c", "d", "g", "h", "m", "s", "x">>

DIGITS == {"0", "1", "2", "3", "4", "5", "6", "7", "8", "9"}

IsSpace(c) == c = " "
IsDigit(c) == c \in DIGITS
IsAlnum(c) == Ord(c) >= Ord("0")

\* str.lower()
LowerChar(c) ==
    IF \E n \in 1..Len(UPPER) : UPPER[n] = c
    THEN LOWER[CHOOSE n \in 1..Len(UPPER) : UPPER[n] = c]
    ELSE c

lower(s) == [n \in 1..Len(s) |-> LowerChar(s[n])]

\* str.strip()
RECURSIVE lstrip(_)
lstrip(s) == IF s # <<>> /\ IsSpace(Head(s)) THEN lstrip(Tail(s)) ELSE s

RECURSIVE rstrip(_)
rstrip(s) ==
    IF s # <<>> /\ IsSpace(s[Len(s)]) THEN rstrip(SubSeq(s, 1, Len(s) - 1)) ELSE s

strip(s) == rstrip(lstrip(s))

\* re.sub(r"\s+", " ", name)
RECURSIVE collapse_spaces(_)
collapse_spaces(s) ==
    IF s = <<>> THEN <<>>
    ELSE IF IsSpace(Head(s)) THEN <<" ">> \o collapse_spaces(lstrip(s))
    ELSE <<Head(s)>> \o collapse_spaces(Tail(s))

EndsWith(s, suffix) ==
    /\ Len(suffix) <= Len(s)
    /\ SubSeq(s, Len(s) - Len(suffix) + 1, Len(s)) = suffix

\* the alternatives of r"(gmbh|ltd|inc|ag|sa|srl|sas|s\.a\.r\.l|eurl)$"
LEGAL_SUFFIXES ==
    {<<"g", "m", "b", "h">>, <<"l", "t", "d">>, <<"i", "n", "c">>, <<"a", "g">>,
     <<"s", "a">>, <<"s", "r", "l">>, <<"s", "a", "s">>,
     <<"s", ".", "a", ".", "r", ".", "l">>, <<"e", "u", "r", "l">>}

\* re.sub(r"(gmbh|...|eurl)$", "", name): the leftmost match is the longest
\* alternative the name ends with; nothing asks for a word boundary before it
strip_legal_suffix(s) ==
    LET ends == {x \in LEGAL_SUFFIXES : EndsWith(s, x)}
    IN IF ends = {} THEN s
       ELSE LET longest == CHOOSE x \in ends : \A y \in ends : Len(y) <= Len(x)
            IN SubSeq(s, 1, Len(s) - Len(longest))

normalize_company_name(name) ==
    strip(collapse_spaces(strip_legal_suffix(collapse_spaces(strip(lower(name))))))

\* phone[-9:]
PHONE_KEEP == 9

\* the slice phone[:n]
LastChars_first(s, n) == IF Len(s) <= n THEN s ELSE SubSeq(s, 1, n)

\* the slice phone[-n:]
LastChars(s, n) == IF Len(s) <= n THEN s ELSE SubSeq(s, Len(s) - n + 1, Len(s))

\* re.sub(r"\D", "", phone), one character at a time
RECURSIVE remove_non_digits(_)
remove_non_digits(s) ==
    IF s = <<>> THEN <<>>
    ELSE IF IsDigit(Head(s)) THEN <<Head(s)>> \o remove_non_digits(Tail(s))
    ELSE remove_non_digits(Tail(s))

normalize_phone(phone) == LastChars(remove_non_digits(phone), PHONE_KEEP)

----------------------------------------------------------------------------
(* fuzzywuzzy's fuzz.token_set_ratio, as the library computes it with      *)
(* difflib.SequenceMatcher (the repository imports fuzzywuzzy alone).      *)

\* utils.full_process: non-alphanumerics become spaces, lower case, strip
full_process(s) ==
    strip(lower([n \in 1..Len(s) |-> IF IsAlnum(s[n]) THEN s[n] ELSE " "]))

\* set(s.split())
RECURSIVE split_tokens(_)
split_tokens(s) ==
    LET t == lstrip(s)
        word_len == IF \E n \in 1..Len(t) : IsSpace(t[n])
                    THEN (CHOOSE n \in 1..Len(t) :
                            IsSpace(t[n]) /\ \A m \in 1..(n - 1) : ~IsSpace(t[m])) - 1
                    ELSE Len(t)
    IN IF t = <<>> THEN {}
       ELSE {SubSeq(t, 1, word_len)} \cup split_tokens(SubSeq(t, word_len + 1, Len(t)))

\* Python's order on strings
RECURSIVE StrLess(_, _)
StrLess(a, b) ==
    IF b = <<>> THEN FALSE
    ELSE IF a = <<>> THEN TRUE
    ELSE IF Head(a) = Head(b) THEN StrLess(Tail(a), Tail(b))
    ELSE Ord(Head(a)) < Ord(Head(b))

\* " ".join(sorted(tokens))
RECURSIVE join_sorted(_)
join_sorted(tokens) ==
    IF tokens = {} THEN <<>>
    ELSE LET first == CHOOSE x \in tokens : \A y \in tokens \ {x} : StrLess(x, y)
             rest == join_sorted(tokens \ {first})
         IN IF rest = <<>> THEN first ELSE first \o <<" ">> \o rest

\* SequenceMatcher.find_longest_match: the longest common block, the earliest
\* in a among the longest, the earliest in b among those; <<p, q, k>>
CommonBlocks(a, b) ==
    {x \in (1..Len(a)) \X (1..Len(b)) \X (1..Min(Len(a), Len(b))) :
        /\ x[1] + x[3] - 1 <= Len(a)
        /\ x[2] + x[3] - 1 <= Len(b)
        /\ \A t \in 0..(x[3] - 1) : a[x[1] + t] = b[x[2] + t]}

BlockBefore(x, y) ==
    \/ x[3] > y[3]
    \/ x[3] = y[3] /\ x[1] < y[1]
    \/ x[3] = y[3] /\ x[1] = y[1] /\ x[2] <= y[2]

\* the total size of SequenceMatcher.get_matching_blocks()
RECURSIVE matching_size(_, _)
matching_size(a, b) ==
    LET blocks == CommonBlocks(a, b)
    IN IF blocks = {} THEN 0
       ELSE LET m == CHOOSE x \in blocks : \A y \in blocks : BlockBefore(x, y)
            IN m[3]
                 + matching_size(SubSeq(a, 1, m[1] - 1), SubSeq(b, 1, m[2] - 1))
                 + matching_size(SubSeq(a, m[1] + m[3], Len(a)),
                                 SubSeq(b, m[2] + m[3], Len(b)))

\* utils.intr(100 * 2.0 * M / T): int(round(x)), Python 3 rounding half to even
intr_ratio(m, t) ==
    LET q == (200 * m) \div t
        r == (200 * m) % t
    IN IF 2 * r < t THEN q
       ELSE IF 2 * r > t THEN q + 1
       ELSE IF q % 2 = 0 THEN q ELSE q + 1

\* fuzz.ratio
ratio(a, b) ==
    IF a = b THEN 100
    ELSE IF a = <<>> \/ b = <<>> THEN 0
    ELSE intr_ratio(matching_size(a, b), Len(a) + Len(b))

Max3(x, y, z) ==
    IF x >= y /\ x >= z THEN x ELSE IF y >= z THEN y ELSE z

\* fuzz.token_set_ratio
token_set_ratio(s1, s2) ==
    LET p1 == full_process(s1)
        p2 == full_process(s2)
        tokens1 == split_tokens(p1)
        tokens2 == split_tokens(p2)
        sorted_sect == join_sorted(tokens1 \cap tokens2)
        combined_1to2 == strip(sorted_sect \o <<" ">> \o join_sorted(tokens1 \ tokens2))
        combined_2to1 == strip(sorted_sect \o <<" ">> \o join_sorted(tokens2 \ tokens1))
    IN IF p1 = <<>> \/ p2 = <<>> THEN 0
       ELSE Max3(ratio(sorted_sect, combined_1to2),
                 ratio(sorted_sect, combined_2to1),
                 ratio(combined_1to2, combined_2to1))

\* Deduplicator.fuzzy_match_names
fuzzy_match_names(name1, name2, threshold) ==
    token_set_ratio(normalize_company_name(name1), normalize_company_name(name2))
        >= threshold

\* Python's None where a string is expected: a sequence that is no string
NoneStr == <<PyNone>>

\* record.get(k) of a field whose values are strings held as sequences
GetStr(r, k) == IF k \in DOMAIN r THEN r[k] ELSE NoneStr

\* bool(v) of a string held as a sequence, or of None
NonEmpty(v) == v # <<>> /\ v # NoneStr

\* the first three rules of is_duplicate: id, website, phone
exact_match(record1, record2) ==
    \/ /\ Truthy(Get(record1, "id")) /\ Truthy(Get(record2, "id"))
       /\ record1.id = record2.id
    \/ /\ Truthy(Get(record1, "website")) /\ Truthy(Get(record2, "website"))
       /\ record1.website = record2.website
    \/ /\ NonEmpty(GetStr(record1, "phone")) /\ NonEmpty(GetStr(record2, "phone"))
       /\ NonEmpty(normalize_phone(record1.phone))
       /\ NonEmpty(normalize_phone(record2.phone))
       /\ normalize_phone(record1.phone) = normalize_phone(record2.phone)

\* a city rule that compares the cities as they are written
same_city_exact(record1, record2) ==
    /\ NonEmpty(GetStr(record1, "city")) /\ NonEmpty(GetStr(record2, "city"))
    /\ record1.city = record2.city

\* if record1.get("city") and record2.get("city"): if ...lower() == ...lower()
same_city(record1, record2) ==
    /\ NonEmpty(GetStr(record1, "city")) /\ NonEmpty(GetStr(record2, "city"))
    /\ lower(record1.city) = lower(record2.city)

\* record["company_name"] raises KeyError, or None.lower() AttributeError
name_raises(record) == GetStr(record, "company_name") = NoneStr

\* Deduplicator.is_duplicate raises: the fourth rule is reached, the cities
\* match, and a company_name is missing or None
is_duplicate_raises(record1, record2) ==
    /\ ~exact_match(record1, record2)
    /\ same_city(record1, record2)
    /\ name_raises(record1) \/ name_raises(record2)

\* is_duplicate without its first rule
is_duplicate_no_id(record1, record2, threshold) ==
    \/ /\ Truthy(Get(record1, "website")) /\ Truthy(Get(record2, "website"))
       /\ record1.website = record2.website
    \/ /\ NonEmpty(GetStr(record1, "phone")) /\ NonEmpty(GetStr(record2, "phone"))
       /\ NonEmpty(normalize_phone(record1.phone))
       /\ NonEmpty(normalize_phone(record2.phone))
       /\ normalize_phone(record1.phone) = normalize_phone(record2.phone)
    \/ /\ same_city(record1, record2)
       /\ ~(name_raises(record1) \/ name_raises(record2))
       /\ fuzzy_match_names(record1.company_name, record2.company_name, threshold)

\* Deduplicator.is_duplicate, when it returns
is_duplicate(record1, record2, threshold) ==
    \/ exact_match(record1, record2)
    \/ /\ same_city(record1, record2)
       /\ ~(name_raises(record1) \/ name_raises(record2))
       /\ fuzzy_match_names(record1.company_name, record2.company_name, threshold)

----------------------------------------------------------------------------
(* Deduplicator.deduplicate as a state machine.  Positions count from 1    *)
(* (the code's i and j count from 0).  One step is one iteration of the    *)
(* outer loop, its whole inner loop included.                              *)

FUZZY_MATCH_THRESHOLD == 85

\* a record as GoogleMapsScraper._parse_place builds it, cut to the fields
\* is_duplicate reads
DedupRecord(id, company_name, city, website) ==
    [id |-> id, company_name |-> company_name, city |-> city,
     phone |-> <<>>, website |-> website]

\* the records the inputs are drawn from: three whose names chain
\* ("ab" ~ "ab cd" ~ "cd", "ab" and "cd" unlike), one a near miss of the
\* middle one, two that share an id under unlike names, one that shares a
\* website with one of those, one that has a city and no other field, and
\* one whose every field is None
DedupPool ==
    {DedupRecord(PyNone, <<"a", "b">>, <<"x">>, ""),
     DedupRecord(PyNone, <<"a", "b", " ", "c", "d">>, <<"X">>, ""),
     DedupRecord(PyNone, <<"c", "d">>, <<"x">>, ""),
     DedupRecord(PyNone, <<"a", "b", " ", "c", "e">>, <<"x">>, ""),
     DedupRecord("g1", <<"a", "b">>, <<"y">>, ""),
     DedupRecord("g1", <<"z", "z">>, <<"z">>, "w1"),
     DedupRecord(PyNone, <<"q", "q">>, <<>>, "w1"),
     [city |-> <<"x">>],
     [id |-> PyNone, company_name |-> NoneStr, city |-> NoneStr,
      phone |-> NoneStr, website |-> PyNone]}

DedupInputs == SeqsUpTo(DedupPool, MaxDedup)

DedupThresholds == {80, FUZZY_MATCH_THRESHOLD}

\* seen_indices = set(): every call starts from a set of its own
new_seen_indices_stale(previous) == previous

new_seen_indices(previous) == {}

\* unique_records.append(record1)
keep_record_front(unique, record1) == <<record1>> \o unique

keep_record(unique, record1) == Append(unique, record1)

\* an inner loop that starts one position late, range(i + 2, len(records))
right_operands_late(recs, idx, seen) == {j \in (idx + 2)..Len(recs) : j \notin seen}

\* the right operands of the inner loop of position idx: the later positions
\* not yet in seen_indices
right_operands(recs, idx, seen) == {j \in (idx + 1)..Len(recs) : j \notin seen}

\* the inner loop: the positions it adds to seen_indices.  record1 stays
\* records[idx] throughout
newly_seen_chained(recs, idx, seen, threshold) ==
    {j \in right_operands(recs, idx, seen) :
        \E k \in idx..(j - 1) : is_duplicate(recs[k], recs[j], threshold)}

newly_seen(recs, idx, seen, threshold) ==
    {j \in right_operands(recs, idx, seen) :
        is_duplicate(recs[idx], recs[j], threshold)}

\* the input list after an iteration that flags the duplicates it found
records_after_flagged(recs, dups) ==
    [n \in 1..Len(recs) |->
        IF n \in dups THEN Update(recs[n], [is_duplicate |-> "True"]) ELSE recs[n]]

\* the input list after an iteration of the outer loop: the loop reads
\* records[i] and records[j] and writes to unique_records and seen_indices only
records_after(recs, dups) == recs

\* a call of deduplicate(records, threshold) has been entered
DedupInit ==
    /\ ClassifierIdle
    /\ PhoneIdle
    /\ PairIdle
    /\ NameIdle
    /\ CsvIdle
    /\ FinalIdle
    /\ MainIdle
    /\ d_records \in DedupInputs
    /\ d_threshold \in DedupThresholds
    /\ d_pc = "loop"
    /\ d_i = 1
    /\ unique_records = <<>>
    /\ seen_indices = new_seen_indices({})
    /\ d_kept = <<>>
    /\ d_rep = [n \in 1..Len(d_records) |-> 0]
    /\ d_compared = {}
    /\ d_pass = 1
    /\ d_input = d_records
    /\ d_first = <<>>

\* if i in seen_indices: continue
DedupSkip ==
    /\ d_pc = "loop"
    /\ d_i <= Len(d_records)
    /\ d_i \in seen_indices
    /\ d_i' = d_i + 1
    /\ UNCHANGED <<d_records, d_threshold, d_pc, unique_records, seen_indices, d_kept,
                   d_rep, d_compared, d_pass, d_input, d_first, besides_d>>

\* the right operands of position idx on which is_duplicate raises
raising_operands(recs, idx, seen) ==
    {j \in right_operands(recs, idx, seen) : is_duplicate_raises(recs[idx], recs[j])}

\* is_duplicate raises in the inner loop; nothing catches it
DedupRaise ==
    /\ d_pc = "loop"
    /\ d_i <= Len(d_records)
    /\ d_i \notin seen_indices
    /\ raising_operands(d_records, d_i, seen_indices \cup {d_i}) # {}
    /\ d_pc' = "raised"
    /\ UNCHANGED <<d_records, d_threshold, d_i, unique_records, seen_indices, d_kept,
                   d_rep, d_compared, d_pass, d_input, d_first, besides_d>>

\* keep records[i] and mark the later records that duplicate it
DedupKeep ==
    /\ d_pc = "loop"
    /\ d_i <= Len(d_records)
    /\ d_i \notin seen_indices
    /\ raising_operands(d_records, d_i, seen_indices \cup {d_i}) = {}
    /\ LET dups == newly_seen(d_records, d_i, seen_indices \cup {d_i}, d_threshold)
       IN /\ unique_records' = keep_record(unique_records, d_records[d_i])
          /\ seen_indices' = seen_indices \cup {d_i} \cup dups
          /\ d_kept' = Append(d_kept, d_i)
          /\ d_rep' = [n \in 1..Len(d_records) |->
                          IF n = d_i \/ n \in dups THEN d_i ELSE d_rep[n]]
          /\ d_compared' = d_compared \cup
                ({d_i} \X right_operands(d_records, d_i, seen_indices \cup {d_i}))
          /\ d_records' = records_after(d_records, dups)
    /\ d_i' = d_i + 1
    /\ UNCHANGED <<d_threshold, d_pc, d_pass, d_input, d_first, besides_d>>

\* return unique_records
DedupReturn ==
    /\ d_pc = "loop"
    /\ d_i > Len(d_records)
    /\ d_pc' = "done"
    /\ UNCHANGED <<d_records, d_threshold, d_i, unique_records, seen_indices, d_kept,
                   d_rep, d_compared, d_pass, d_input, d_first, besides_d>>

\* deduplicate is called again, on what it returned, with the same threshold
DedupAgain ==
    /\ d_pc = "done"
    /\ d_pass = 1
    /\ d_pass' = 2
    /\ d_first' = unique_records
    /\ d_records' = unique_records
    /\ d_pc' = "loop"
    /\ d_i' = 1
    /\ unique_records' = <<>>
    /\ seen_indices' = new_seen_indices(seen_indices)
    /\ d_kept' = <<>>
    /\ d_rep' = [n \in 1..Len(unique_records) |-> 0]
    /\ d_compared' = {}
    /\ UNCHANGED <<d_threshold, d_input, besides_d>>

NextDedup == DedupSkip \/ DedupKeep \/ DedupRaise \/ DedupReturn \/ DedupAgain

SpecDedup == DedupInit /\ [][NextDedup]_vars

----------------------------------------------------------------------------
(* normalize_phone and the phone rule of is_duplicate, on two phone        *)
(* strings: every string over PhoneChars up to MaxPhoneLen characters, and *)
(* a few written as people write phone numbers.                            *)

PhoneChars == {"1", "2", "-"}

INTERNATIONAL_PLUS ==
    <<"+", "4", "9", " ", "(", "0", ")", "3", "0", " ",
      "1", "2", "3", "4", "5", "6", "7">>

INTERNATIONAL_ZEROS ==
    <<"0", "0", "4", "9", "-", "3", "0", "-", "1", "2", "3", "4", "5", "6", "7">>

PhoneExamples ==
    {INTERNATIONAL_PLUS,
     INTERNATIONAL_ZEROS,
     <<"1", "2", "3", "4", "5", "6", "7", "8", "9">>,
     <<"0", "1", "2", "3", "4", "5", "6", "7", "8", "9">>,
     <<"9", "1", "2", "3", "4", "5", "6", "7", "8", "9">>,
     <<"1", "2", "3", "4", "5", "6", "7", "8", "9", "0">>,
     <<"(", "-", ")">>}

PhoneInputs == SeqsUpTo(PhoneChars, MaxPhoneLen) \cup PhoneExamples

\* a record that carries the phone: no id, no website, and a name of its own,
\* so that of the rules of is_duplicate only the phone rule can fire
PhoneRecord(company_name, phone) ==
    [id |-> PyNone, company_name |-> company_name, city |-> <<"x">>,
     phone |-> phone, website |-> ""]

PhoneInit ==
    /\ ClassifierIdle
    /\ DedupIdle
    /\ PairIdle
    /\ NameIdle
    /\ CsvIdle
    /\ FinalIdle
    /\ MainIdle
    /\ ph_pc = "start"
    /\ ph_1 \in PhoneInputs
    /\ ph_2 \in PhoneInputs
    /\ ph_n1 = <<>>
    /\ ph_n2 = <<>>
    /\ ph_dup = FALSE

\* Deduplicator.normalize_phone on each of the two
PhoneNormalize ==
    /\ ph_pc = "start"
    /\ ph_n1' = normalize_phone(ph_1)
    /\ ph_n2' = normalize_phone(ph_2)
    /\ ph_pc' = "normalized"
    /\ UNCHANGED <<ph_1, ph_2, ph_dup, besides_p>>

\* Deduplicator.is_duplicate on two records that carry them
PhoneCompare ==
    /\ ph_pc = "normalized"
    /\ ph_dup' = is_duplicate(PhoneRecord(<<"a", "b">>, ph_1),
                              PhoneRecord(<<"c", "d">>, ph_2),
                              FUZZY_MATCH_THRESHOLD)
    /\ ph_pc' = "done"
    /\ UNCHANGED <<ph_1, ph_2, ph_n1, ph_n2, besides_p>>

NextPhone == PhoneNormalize \/ PhoneCompare

SpecPhone == PhoneInit /\ [][NextPhone]_vars

----------------------------------------------------------------------------
(* Deduplicator.is_duplicate on one pair of records.                       *)

\* a record that has a phone and a website of its own
ContactRecord(company_name, city, phone, website) ==
    [id |-> PyNone, company_name |-> company_name, city |-> city,
     phone |-> phone, website |-> website]

\* the records the pair is drawn from: those of DedupPool, two whose phones
\* have the same digits, one whose phone has no digit, and one whose website
\* differs from another's in case only
PairPool ==
    DedupPool \cup
      {ContactRecord(<<"h", "h">>, <<"y">>, <<"1", "2">>, "W1"),
       ContactRecord(<<"m", "m">>, <<"z">>, <<"1", "-", "2">>, ""),
       ContactRecord(<<"d", "d">>, <<>>, <<"-">>, "")}

PairInit ==
    /\ ClassifierIdle
    /\ DedupIdle
    /\ PhoneIdle
    /\ NameIdle
    /\ CsvIdle
    /\ FinalIdle
    /\ MainIdle
    /\ pr_pc = "start"
    /\ pr_1 \in PairPool
    /\ pr_2 \in PairPool
    /\ pr_threshold \in DedupThresholds
    /\ pr_dup = FALSE

\* is_duplicate(record1, record2, threshold) returns
PairCompare ==
    /\ pr_pc = "start"
    /\ ~is_duplicate_raises(pr_1, pr_2)
    /\ pr_dup' = is_duplicate(pr_1, pr_2, pr_threshold)
    /\ pr_pc' = "done"
    /\ UNCHANGED <<pr_1, pr_2, pr_threshold, besides_q>>

\* is_duplicate(record1, record2, threshold) raises
PairRaise ==
    /\ pr_pc = "start"
    /\ is_duplicate_raises(pr_1, pr_2)
    /\ pr_pc' = "raised"
    /\ UNCHANGED <<pr_1, pr_2, pr_threshold, pr_dup, besides_q>>

NextPair == PairCompare \/ PairRaise

SpecPair == PairInit /\ [][NextPair]_vars

----------------------------------------------------------------------------
(* Deduplicator.normalize_company_name on a name X, on X + " gmbh" and on  *)
(* X + " sarl": every string over NameChars up to MaxNameLen characters,   *)
(* and a few company names.                                                *)

MaxNameLen == 3

NameChars == {"a", "s", "G", " "}

NameExamples ==
    {<<"v", "i", "s", "a">>,
     <<"x", " ", "s", "a", "r", "l">>,
     <<"x", " ", "s", ".", "a", ".", "r", ".", "l">>,
     <<"A", "b", " ", " ", "G", "m", "b", "H", " ">>,
     <<"a", "b", " ", "l", "t", "d">>,
     <<"m", "a", "g">>,
     <<"a", "g">>}

NameInputs == SeqsUpTo(NameChars, MaxNameLen) \cup NameExamples

NameInit ==
    /\ ClassifierIdle
    /\ DedupIdle
    /\ PhoneIdle
    /\ PairIdle
    /\ CsvIdle
    /\ FinalIdle
    /\ MainIdle
    /\ nm_pc = "start"
    /\ nm_name \in NameInputs
    /\ nm_out = <<>>
    /\ nm_gmbh = <<>>
    /\ nm_sarl = <<>>

\* Deduplicator.normalize_company_name on the three names
NameNormalize ==
    /\ nm_pc = "start"
    /\ nm_out' = normalize_company_name(nm_name)
    /\ nm_gmbh' = normalize_company_name(nm_name \o <<" ", "g", "m", "b", "h">>)
    /\ nm_sarl' = normalize_company_name(nm_name \o <<" ", "s", "a", "r", "l">>)
    /\ nm_pc' = "done"
    /\ UNCHANGED <<nm_name, besides_n>>

NextName == NameNormalize

SpecName == NameInit /\ [][NextName]_vars

----------------------------------------------------------------------------
(* FileManager.save_csv followed by load_csv, with the order of a dict's   *)
(* keys kept: a record is the sequence of its (key, value) items in        *)
(* insertion order.  The records are every ordered choice of the keys id,  *)
(* company_name and city, each present with a value, null, or absent.      *)
(* FileManager is defined twice, in utils.py and in                        *)
(* horeca_distributor_finder.py; cs_module says which one is called.       *)

MaxCsvRecords == 2

CsvKeys == {"id", "company_name", "city"}

CsvValues(k) ==
    IF k = "id" THEN {PyNone, "p1"}
    ELSE IF k = "company_name" THEN {PyNone, "a"}
    ELSE {"x"}

CsvItems == UNION {{<<k, v>> : v \in CsvValues(k)} : k \in CsvKeys}

\* a dict holds a key once
OrderedRecords ==
    {d \in SeqsUpTo(CsvItems, Cardinality(CsvKeys)) :
        \A m, n \in 1..Len(d) : d[m][1] = d[n][1] => m = n}

\* list(record.keys())
keys(d) == [n \in 1..Len(d) |-> d[n][1]]

\* the dict of the items, their order put aside
AsDict(d) ==
    [k \in {d[n][1] : n \in 1..Len(d)} |->
        d[CHOOSE n \in 1..Len(d) : d[n][1] = k][2]]

CsvModules == {"utils", "horeca_distributor_finder"}

\* utils.py: csv.DictWriter(f, fieldnames=fieldnames, extrasaction="ignore");
\* horeca_distributor_finder.py: csv.DictWriter(f, fieldnames=fieldnames),
\* and DictWriter's extrasaction defaults to "raise"
extrasaction(module) == IF module = "utils" THEN "ignore" ELSE "raise"

\* DictWriter._dict_to_list raises ValueError on a key outside fieldnames
\* unless extrasaction is "ignore"
writerow_raises(module, fieldnames, d) ==
    /\ extrasaction(module) = "raise"
    /\ \E n \in 1..Len(d) : \A m \in 1..Len(fieldnames) : fieldnames[m] # d[n][1]

\* DictWriter.writerow: one cell for each of fieldnames, in their order
writerow(fieldnames, d) ==
    [m \in 1..Len(fieldnames) |-> CsvCell(Get(AsDict(d), fieldnames[m]))]

\* the records writerows gets through: all of them, or those before the
\* first one writerow raises on
Written(module, fieldnames, recs) ==
    IF \E n \in 1..Len(recs) : writerow_raises(module, fieldnames, recs[n])
    THEN SubSeq(recs, 1,
                (CHOOSE n \in 1..Len(recs) :
                    /\ writerow_raises(module, fieldnames, recs[n])
                    /\ \A m \in 1..(n - 1) :
                          ~writerow_raises(module, fieldnames, recs[m])) - 1)
    ELSE recs

\* csv.DictReader: the header line gives the keys of every row; a file of
\* empty lines only has no header and no rows
DictReader(f) ==
    IF f.header = <<>>
    THEN <<>>
    ELSE [n \in 1..Len(f.rows) |->
            [m \in 1..Len(f.header) |-> <<f.header[m], f.rows[n][m]>>]]

CsvInit ==
    /\ ClassifierIdle
    /\ DedupIdle
    /\ PhoneIdle
    /\ PairIdle
    /\ NameIdle
    /\ FinalIdle
    /\ MainIdle
    /\ cs_pc = "start"
    /\ cs_module \in CsvModules
    /\ cs_records \in SeqsUpTo(OrderedRecords, MaxCsvRecords)
    /\ cs_file = NoOrderedFile
    /\ cs_loaded = <<>>

\* FileManager.save_csv(records, filepath)
CsvSave ==
    /\ cs_pc = "start"
    /\ IF cs_records = <<>>
       THEN /\ cs_file' = cs_file
            /\ cs_pc' = "written"
       ELSE LET fieldnames == keys(cs_records[1])
                done == Written(cs_module, fieldnames, cs_records)
            IN  /\ cs_file' = [exists |-> TRUE,
                               header |-> fieldnames,
                               rows   |-> [n \in 1..Len(done) |->
                                              writerow(fieldnames, done[n])]]
                /\ cs_pc' = IF done = cs_records THEN "written" ELSE "raised"
    /\ UNCHANGED <<cs_module, cs_records, cs_loaded, besides_w>>

\* FileManager.load_csv(filepath), the file being there
CsvLoad ==
    /\ cs_pc = "written"
    /\ cs_file.exists
    /\ cs_loaded' = DictReader(cs_file)
    /\ cs_pc' = "loaded"
    /\ UNCHANGED <<cs_module, cs_records, cs_file, besides_w>>

NextCsv == CsvSave \/ CsvLoad

SpecCsv == CsvInit /\ [][NextCsv]_vars

----------------------------------------------------------------------------
(* The final filter and sort of main, on the list classify_all returned.   *)
(* A priority_score is the text of an integer (as the oracle's JSON number *)
(* or the checkpoint file's cell gives it), the empty cell of a loaded     *)
(* record, JSON null, or absent.                                           *)

CUTOFF == 7

ScoreTexts == {"4", "7", "9", "10"}

ScoreValues == ScoreTexts \cup {"", PyNone}

FinalRecord(company_name, score) ==
    [company_name |-> company_name, priority_score |-> score]

\* the records the classified list is drawn from; the last is sentinel-marked
FinalPool ==
    {FinalRecord("a", v) : v \in ScoreValues}
      \cup {FinalRecord("b", "7"),
            [company_name |-> "a", contact_recommendation |-> SENTINEL]}

FinalInputs == SeqsUpTo(FinalPool, MaxFinal)

\* float(v) of the text of an integer
py_float(v) ==
    CASE v = "4" -> 4
      [] v = "7" -> 7
      [] v = "8" -> 8
      [] v = "9" -> 9
      [] v = "10" -> 10

\* r.get("priority_score") and float(r.get("priority_score", 0)) > 7
passes_cutoff_strict(r) ==
    /\ Truthy(Get(r, "priority_score"))
    /\ py_float(Get(r, "priority_score")) > CUTOFF

\* r.get("priority_score") and float(r.get("priority_score", 0)) >= 7
passes_cutoff(r) ==
    /\ Truthy(Get(r, "priority_score"))
    /\ py_float(Get(r, "priority_score")) >= CUTOFF

\* key=lambda x: float(x.get("priority_score", 0))
sort_key(r) == py_float(Get(r, "priority_score"))

\* where sorted(..., reverse=True) puts x in a list already sorted: after the
\* elements whose key is not below its own (the sort is stable)
insert_sorted(acc, x) ==
    LET k == Cardinality({n \in 1..Len(acc) : sort_key(acc[n]) >= sort_key(x)})
    IN SubSeq(acc, 1, k) \o <<x>> \o SubSeq(acc, k + 1, Len(acc))

\* sorted(leads, key=..., reverse=True)
RECURSIVE sorted_descending(_)
sorted_descending(leads) ==
    IF leads = <<>> THEN <<>>
    ELSE insert_sorted(sorted_descending(SubSeq(leads, 1, Len(leads) - 1)),
                       leads[Len(leads)])

FinalInit ==
    /\ ClassifierIdle
    /\ DedupIdle
    /\ PhoneIdle
    /\ PairIdle
    /\ NameIdle
    /\ CsvIdle
    /\ MainIdle
    /\ fin_pc = "start"
    /\ fin_classified \in FinalInputs
    /\ final_leads = <<>>

\* final_leads = sorted([r for r in classified_leads if ...], ..., reverse=True)
FilterAndSort ==
    /\ fin_pc = "start"
    /\ final_leads' = sorted_descending(SelectSeq(fin_classified, passes_cutoff))
    /\ fin_pc' = "done"
    /\ UNCHANGED <<fin_classified, besides_f>>

NextFinal == FilterAndSort

SpecFinal == FinalInit /\ [][NextFinal]_vars

----------------------------------------------------------------------------
(* main, the orchestrator (src/src/nrw_frozen_food_warehouse_finder.py;    *)
(* src/src/horeca_distributor_finder.py has the same sequence).  One run   *)
(* of main, started on stage files that earlier runs may have left.        *)

\* what the search stage can return: records of two businesses, one of them
\* found with and without a provider id
MainRecordDomain ==
    RecordDomain \cup {[id |-> PyNone, company_name |-> "b", city |-> "x"]}

SearchResults == SeqsUpTo(MainRecordDomain, MaxSearch)

\* the characters of a string of the search stage
Chars(v) ==
    CASE v = "a" -> <<"a">>
      [] v = "b" -> <<"b">>
      [] v = "x" -> <<"x">>
      [] v = "" -> <<>>

\* a record of the search stage as Deduplicator reads it
AsDedupRecord(r) ==
    [id |-> r.id, company_name |-> Chars(r.company_name), city |-> Chars(r.city),
     phone |-> <<>>, website |-> ""]

\* the outer loop of deduplicate from position idx on: the positions kept
RECURSIVE kept_from(_, _, _, _)
kept_from(recs, idx, seen, threshold) ==
    IF idx > Len(recs) THEN <<>>
    ELSE IF idx \in seen THEN kept_from(recs, idx + 1, seen, threshold)
    ELSE <<idx>> \o kept_from(recs, idx + 1,
                              seen \cup {idx}
                                \cup newly_seen(recs, idx, seen \cup {idx}, threshold),
                              threshold)

\* Deduplicator.deduplicate(leads, threshold), when it returns
deduplicate(leads, threshold) ==
    LET kept == kept_from([n \in 1..Len(leads) |-> AsDedupRecord(leads[n])],
                          1, {}, threshold)
    IN [n \in 1..Len(kept) |-> leads[kept[n]]]

\* stage files of earlier runs
OldRawFiles == {NoFile, save_csv(<<[id |-> "p1", company_name |-> "a", city |-> "x"]>>, NoFile)}

OldDedupedFiles ==
    {NoFile} \cup {save_csv(l, NoFile) :
                     l \in {x \in SearchResults :
                              x # <<>> /\ deduplicate(x, FUZZY_MATCH_THRESHOLD) = x}}

OldClassifiedFiles ==
    {NoFile,
     save_csv(<<[id |-> "p1", company_name |-> "a", city |-> "x", priority_score |-> "8"]>>,
              NoFile)}

OldFinalFiles == OldClassifiedFiles

MainInit ==
    /\ DedupIdle
    /\ PhoneIdle
    /\ PairIdle
    /\ NameIdle
    /\ CsvIdle
    /\ FinalIdle
    /\ m_pc = "start"
    /\ args_resume \in BOOLEAN
    /\ enable_ai \in BOOLEAN
    /\ maps_key \in BOOLEAN
    /\ raw_file \in OldRawFiles
    /\ deduped_file \in OldDedupedFiles
    /\ final_file \in OldFinalFiles
    /\ raw_leads = <<>>
    /\ deduped_leads = <<>>
    /\ searched = FALSE
    /\ deduplicated = FALSE
    /\ records = <<>>
    /\ api_key \in BOOLEAN
    /\ file \in OldClassifiedFiles
    /\ pc = "idle"
    /\ resume = TRUE
    /\ classified_leads = <<>>
    /\ remaining_records = <<>>
    /\ i = 0
    /\ batch_results = JsonList(<<>>)
    /\ outcome = "none"
    /\ submitted = {}
    /\ resubmitted = FALSE
    /\ calls = 0
    /\ writes = 0
    /\ prev_complete = FALSE
    /\ checkpointed = <<>>
    /\ interrupted = {}
    /\ failed = {}

\* if Config.GOOGLE_MAPS_API_KEY == "YOUR_API_KEY_HERE": return
MainHaltNoKey ==
    /\ m_pc = "start"
    /\ ~maps_key
    /\ m_pc' = "halted"
    /\ UNCHANGED <<args_resume, enable_ai, maps_key, raw_file, deduped_file, final_file,
                   raw_leads, deduped_leads, searched, deduplicated,
                   cvars, dvars, pvars, qvars, nvars, wvars,
                   fvars>>

\* if args.resume: if not os.path.exists(Config.DEDUPED_LEADS_FILE): return
MainHaltNoFile ==
    /\ m_pc = "start"
    /\ maps_key
    /\ args_resume
    /\ ~deduped_file.exists
    /\ m_pc' = "halted"
    /\ UNCHANGED <<args_resume, enable_ai, maps_key, raw_file, deduped_file, final_file,
                   raw_leads, deduped_leads, searched, deduplicated,
                   cvars, dvars, pvars, qvars, nvars, wvars,
                   fvars>>

\* deduped_leads = FileManager.load_csv(Config.DEDUPED_LEADS_FILE)
MainResumeLoad ==
    /\ m_pc = "start"
    /\ maps_key
    /\ args_resume
    /\ deduped_file.exists
    /\ deduped_leads' = load_csv(deduped_file)
    /\ m_pc' = "classify"
    /\ UNCHANGED <<args_resume, enable_ai, maps_key, raw_file, deduped_file, final_file,
                   raw_leads, searched, deduplicated,
                   cvars, dvars, pvars, qvars, nvars, wvars, fvars>>

\* PHASE 1: the search calls, and save_csv(raw_leads, Config.RAW_LEADS_FILE)
MainSearch ==
    /\ m_pc = "start"
    /\ maps_key
    /\ ~args_resume
    /\ \E results \in SearchResults :
         /\ raw_leads' = results
         /\ raw_file' = save_csv(results, raw_file)
    /\ searched' = TRUE
    /\ m_pc' = "dedup"
    /\ UNCHANGED <<args_resume, enable_ai, maps_key, deduped_file, final_file,
                   deduped_leads, deduplicated,
                   cvars, dvars, pvars, qvars, nvars, wvars, fvars>>

\* PHASE 2: Deduplicator.deduplicate, and save_csv(deduped_leads, ...)
MainDedup ==
    /\ m_pc = "dedup"
    /\ deduped_leads' = deduplicate(raw_leads, FUZZY_MATCH_THRESHOLD)
    /\ deduped_file' = save_csv(deduped_leads', deduped_file)
    /\ deduplicated' = TRUE
    /\ m_pc' = "classify"
    /\ UNCHANGED <<args_resume, enable_ai, maps_key, raw_file, final_file, raw_leads,
                   searched, cvars, dvars, pvars, qvars, nvars, wvars, fvars>>

\* PHASE 3: classifier.classify_all(records=deduped_leads, ..., resume=True)
MainClassify ==
    /\ m_pc = "classify"
    /\ enable_ai
    /\ pc = "idle"
    /\ records' = deduped_leads
    /\ ClassifyAllEntry(deduped_leads, TRUE)
    /\ UNCHANGED <<api_key, file, besides_c>>

\* classify_all has returned: the filter and the sort
MainFilter ==
    /\ m_pc = "classify"
    /\ enable_ai
    /\ pc = "done"
    /\ fin_classified' = classified_leads
    /\ final_leads' = sorted_descending(SelectSeq(classified_leads, passes_cutoff))
    /\ fin_pc' = "done"
    /\ m_pc' = "save_final"
    /\ UNCHANGED <<args_resume, enable_ai, maps_key, raw_file, deduped_file, final_file,
                   raw_leads, deduped_leads, searched, deduplicated,
                   cvars, dvars, pvars, qvars, nvars, wvars>>

\* else: final_leads = deduped_leads
MainSkipClassify ==
    /\ m_pc = "classify"
    /\ ~enable_ai
    /\ final_leads' = deduped_leads
    /\ m_pc' = "save_final"
    /\ UNCHANGED <<args_resume, enable_ai, maps_key, raw_file, deduped_file, final_file,
                   raw_leads, deduped_leads, searched, deduplicated, fin_pc,
                   fin_classified, cvars, dvars, pvars, qvars, nvars, wvars>>

\* FileManager.save_csv(final_leads, Config.FINAL_PROSPECTS_FILE)
MainSaveFinal ==
    /\ m_pc = "save_final"
    /\ final_file' = save_csv(final_leads, final_file)
    /\ m_pc' = "complete"
    /\ UNCHANGED <<args_resume, enable_ai, maps_key, raw_file, deduped_file, raw_leads,
                   deduped_leads, searched, deduplicated,
                   cvars, dvars, pvars, qvars, nvars, wvars, fvars>>

NextMain ==
    \/ MainHaltNoKey \/ MainHaltNoFile \/ MainResumeLoad \/ MainSearch \/ MainDedup
    \/ MainClassify \/ ClassifyBatch \/ SaveCheckpoint
    \/ MainFilter \/ MainSkipClassify \/ MainSaveFinal

SpecMain == MainInit /\ [][NextMain]_vars

----------------------------------------------------------------------------
(* Properties of classify_all. *)

\* the batch the loop is working on, and what Append put in the accumulator for it
CurrentBatch == BatchAt(remaining_records, i)

Appended ==
    SubSeq(classified_leads,
           Len(classified_leads) - Len(CurrentBatch) + 1, Len(classified_leads))

\* after is before with the fields of e written over it
Merged(before, after, e) ==
    /\ DOMAIN after = (DOMAIN before) \cup (DOMAIN e)
    /\ \A k \in DOMAIN e : after[k] = e[k]
    /\ \A k \in (DOMAIN before) \ (DOMAIN e) : after[k] = before[k]

\* after is before with contact_recommendation set to the sentinel
SentinelMarked(before, after) ==
    Merged(before, after, [contact_recommendation |-> SENTINEL])

IsPrefix(s, t) == Len(s) <= Len(t) /\ \A n \in 1..Len(s) : s[n] = t[n]

\* C1: a run with resume=True that follows a run which returned after
\* writing the checkpoint makes no oracle call, writes nothing and returns
\* exactly the records the checkpoint file holds.
C1_ResumeAfterCompleteRun ==
    (pc = "done" /\ resume /\ prev_complete)
        => /\ calls = 0
           /\ writes = 0
           /\ classified_leads = load_csv(file)

\* C2 as claimed: for a response list of m <= n objects the record at position
\* j <= m is merged with element j and every record at j > m gets the
\* sentinel, and the batch does not fail.
C2_MergeAlignment_AsClaimed ==
    outcome = "list"
        => /\ pc = "save"
           /\ \A j \in 1..Len(CurrentBatch) :
                IF j <= Len(batch_results.elems)
                THEN Merged(CurrentBatch[j], Appended[j], batch_results.elems[j].f)
                ELSE SentinelMarked(CurrentBatch[j], Appended[j])

\* C2 amended: for a response list of m <= n objects the record at position
\* j <= m whose element j is a non-empty object is merged with exactly that
\* element; every record at j > m, and every record whose element is the
\* empty object, gets the sentinel; the accumulator grows by the n records of
\* the batch in batch order and the batch does not fail.
C2_MergeAlignment ==
    outcome = "list"
        => /\ pc = "save"
           /\ Len(classified_leads) >= Len(CurrentBatch)
           /\ \A j \in 1..Len(CurrentBatch) :
                IF j <= Len(batch_results.elems) /\ batch_results.elems[j].f # EmptyDict
                THEN Merged(CurrentBatch[j], Appended[j], batch_results.elems[j].f)
                ELSE SentinelMarked(CurrentBatch[j], Appended[j])

\* C2 witness: a batch of two records answered by one element that overwrites
\* the first record's id; the second record is past the end of the response.
C2_Witness ==
    /\ pc = "save"
    /\ outcome = "list"
    /\ Len(CurrentBatch) = 2
    /\ Len(batch_results.elems) = 1
    /\ batch_results.elems[1].f = [id |-> "p2"]
    /\ CurrentBatch[1].id = "p1"
    /\ Appended[1].id = "p2"
    /\ Appended[2].contact_recommendation = SENTINEL

\* C3: when the oracle call raises or returns a payload of unexpected shape,
\* every record of the batch gets the sentinel and the batch is appended and
\* goes on to its Checkpoint; the run does not abort.
C3_BadBatchDegrades ==
    outcome \in {"error", "shape"}
        => /\ pc = "save"
           /\ \A j \in 1..Len(CurrentBatch) :
                SentinelMarked(CurrentBatch[j], Appended[j])

\* C4: after a crash the checkpoint file still holds every record the run
\* loaded or had checkpointed before the crash, unchanged and in place.
C4_CrashKeepsCheckpointed ==
    pc = "crashed" => IsPrefix(checkpointed, load_csv(file))

\* a checkpoint file that is not what save_csv writes: it has no header line
Corrupt(f) == f.exists /\ f.header = {}

\* C13: a run with resume=True that finds a corrupt or unreadable checkpoint
\* file stops at once: it is never in its loop, at a Checkpoint or finished
\* while the file it started from is still there (it has written nothing).
C13_CorruptCheckpointStops ==
    (resume /\ writes = 0 /\ Corrupt(file)) => pc \notin {"loop", "save", "done"}

\* the run has done Init and Partition and nothing else: it is about to take
\* its first batch, or has returned on an empty work queue
JustStarted == (pc = "loop" /\ i = 0) \/ (pc = "done" /\ writes = 0)

\* the UID as the claim words it
UidAsClaimed(r) ==
    IF "id" \in DOMAIN r /\ r.id \notin {PyNone, ""}
    THEN r.id
    ELSE r.company_name \o "_" \o r.city

\* what Init loads: the checkpoint's records when resume is on and the file
\* exists, nothing otherwise
LoadedAtInit == IF resume /\ file.exists THEN file.rows ELSE <<>>

\* the positions of the input whose UID is not among the loaded records'
Unprocessed ==
    {n \in 1..Len(records) :
        \A m \in 1..Len(LoadedAtInit) :
            UidAsClaimed(records[n]) # UidAsClaimed(LoadedAtInit[m])}

\* C18: after Init and Partition the accumulator is the loaded checkpoint
\* records (none when resume is off or the file is missing), and the work
\* queue is the input records whose UID no loaded record has, in input order.
C18_InitAndPartition ==
    JustStarted =>
        /\ classified_leads = LoadedAtInit
        /\ Len(remaining_records) = Cardinality(Unprocessed)
        /\ \A n \in Unprocessed :
             remaining_records[Cardinality({m \in Unprocessed : m <= n})] = records[n]

C18_Witness ==
    /\ pc = "loop"
    /\ i = 0
    /\ resume
    /\ file.exists
    /\ Len(classified_leads) = 2
    /\ Len(records) = 3
    /\ Unprocessed = {3}
    /\ remaining_records = <<records[3]>>

\* C19: when the work queue is empty after Partition, classify_all returns
\* at once: the step that ends it leaves the checkpoint file as it is, makes
\* no oracle call and no write, and returns the accumulator as loaded.
C19_TerminalEmpty ==
    /\ []((JustStarted /\ remaining_records = <<>>) => pc = "done")
    /\ [][(pc # "save" /\ pc' = "done") =>
            /\ remaining_records' = <<>>
            /\ file' = file
            /\ calls' = 0
            /\ writes' = 0
            /\ classified_leads' = IF resume' /\ file.exists THEN file.rows ELSE <<>>]_vars

C19_Witness ==
    /\ pc = "done"
    /\ writes = 0
    /\ calls = 0
    /\ resume
    /\ Len(records) = 2
    /\ remaining_records = <<>>
    /\ file.exists
    /\ classified_leads = file.rows

\* a Checkpoint has just completed: the accumulator is what it wrote
JustCheckpointed == writes > 0 /\ pc \in {"loop", "done"}

\* the value of field k of record r as text, absent as empty
FieldText(r, k) ==
    IF k \in DOMAIN r /\ r[k] # PyNone THEN r[k] ELSE ""

\* C20 as the claim states it: the records read back after a Checkpoint are
\* the accumulator's, in order, each with every one of its fields.
C20_CheckpointHoldsAll_AsClaimed ==
    JustCheckpointed =>
        /\ Len(load_csv(file)) = Len(classified_leads)
        /\ \A n \in 1..Len(classified_leads) :
             /\ DOMAIN classified_leads[n] \subseteq DOMAIN load_csv(file)[n]
             /\ \A k \in DOMAIN load_csv(file)[n] :
                  load_csv(file)[n][k] = FieldText(classified_leads[n], k)

\* C20: the records read back after a Checkpoint are the accumulator's, all
\* of them and in order, each with the fields of the first accumulator
\* record: its own value as text, empty when it lacks the field; a field the
\* first record lacks is in no row.
C20_CheckpointHoldsAll ==
    JustCheckpointed =>
        /\ Len(load_csv(file)) = Len(classified_leads)
        /\ \A n \in 1..Len(classified_leads) :
             /\ DOMAIN load_csv(file)[n] = DOMAIN classified_leads[1]
             /\ \A k \in DOMAIN classified_leads[1] :
                  load_csv(file)[n][k] = FieldText(classified_leads[n], k)

C20_Witness ==
    /\ JustCheckpointed
    /\ resume
    /\ Len(checkpointed) = 3
    /\ Len(classified_leads) = 3
    /\ Get(classified_leads[1], "priority_score") = "8"
    /\ Get(load_csv(file)[1], "priority_score") = "8"
    /\ Get(load_csv(file)[3], "priority_score") = "8"

\* C5: no UID is submitted to the oracle twice over a run and the resumed
\* runs that follow it, and neither the accumulator nor the checkpoint file
\* holds two records with the same UID.
C5_AtMostOncePerUid ==
    /\ ~resubmitted
    /\ NoDupUids(classified_leads)
    /\ NoDupUids(load_csv(file))

\* the rows Append's last batch makes under the header of the file f
BatchRows(f) == [n \in 1..Len(CurrentBatch) |-> CsvRow(f.header, Appended[n])]

\* C21: the checkpoint file grows by whole batches: every step that changes
\* the file is the Checkpoint of a batch, keeps the records the file held as
\* an unchanged prefix and adds exactly the records of that batch after them;
\* no step removes a record.
C21_GrowsByWholeBatches ==
    [][file' # file =>
          /\ pc = "save"
          /\ load_csv(file') = load_csv(file) \o BatchRows(file')]_vars

\* ceil(n / b)
Ceil(n, b) == (n + b - 1) \div b

\* after is before as Merge leaves it: merged with an enrichment object or
\* marked with the sentinel
Classified(before, after) ==
    \/ SentinelMarked(before, after)
    \/ \E e \in EnrichmentObjects \ {EmptyDict} : Merged(before, after, e)

\* C22: the batch loop takes the work queue in contiguous slices of
\* BatchSize records in order (the last may be shorter), asks the oracle once
\* for each (a classifier that has a key), and does not abort; when it
\* returns it has made ceil(n / b) oracle calls and Checkpoints and has
\* appended the n records of the work queue to the accumulator, once each and
\* in order.
C22_BatchLoop ==
    /\ pc # "aborted"
    /\ pc \in {"loop", "save"} =>
         /\ i % BatchSize = 0
         /\ i < Len(remaining_records)
         /\ Len(CurrentBatch) = Min(BatchSize, Len(remaining_records) - i)
         /\ \A k \in 1..Len(CurrentBatch) : CurrentBatch[k] = remaining_records[i + k]
         /\ api_key => calls = (i \div BatchSize) + (IF pc = "save" THEN 1 ELSE 0)
    /\ (pc = "done" /\ remaining_records # <<>>) =>
         LET n == Len(remaining_records)
             base == Len(classified_leads) - n
         IN /\ api_key => calls = Ceil(n, BatchSize)
            /\ writes = Ceil(n, BatchSize)
            /\ base >= 0
            /\ \A k \in 1..n :
                 Classified(remaining_records[k], classified_leads[base + k])

\* how many records of the list have the UID u
UidCount(u, recs) == Cardinality({n \in 1..Len(recs) : Uid(recs[n]) = u})

\* C23: a run restarted with resume=True after a run that died submits to the
\* oracle no record of a batch that the dead run had checkpointed, and the
\* accumulator it returns holds the UIDs of the input, each as often as the
\* input does (once for an input without repeated UIDs), as the accumulator
\* of an uninterrupted run does.
C23_InterruptAndResume ==
    /\ [][calls' = calls + 1 => UidsOf(CurrentBatch) \cap interrupted = {}]_vars
    /\ []((pc = "done" /\ resume /\ interrupted # {}) =>
            \A u \in UidsOf(records) \cup UidsOf(classified_leads) :
                UidCount(u, classified_leads) = UidCount(u, records))

\* C24: when classify_all is run again with resume=True on the same
\* checkpoint file, every record that was marked with the sentinel because
\* the oracle call of its batch raised is in the work queue again, to be
\* submitted to the oracle.
C24_FailedBatchRetried ==
    (JustStarted /\ resume) => failed \subseteq UidsOf(remaining_records)

\* C30: the Merge step leaves the identity of every record of the batch as it
\* was: whatever the oracle's element for a record carries, the record
\* appended to the accumulator, and the row the next checkpoint write holds
\* for it, has the UID the record had in the work queue.
C30_MergeKeepsUid ==
    /\ [](pc = "save" =>
            \A j \in 1..Len(CurrentBatch) : Uid(Appended[j]) = Uid(CurrentBatch[j]))
    /\ [][(pc = "save" /\ pc' # "save" /\ file' # file) =>
            \A j \in 1..Len(CurrentBatch) :
                Uid(load_csv(file')[Len(load_csv(file')) - Len(CurrentBatch) + j])
                    = Uid(CurrentBatch[j])]_vars

----------------------------------------------------------------------------
(* Properties of the Deduplicator. *)

RECURSIVE IsSubsequence(_, _)
IsSubsequence(s, t) ==
    IF s = <<>> THEN TRUE
    ELSE IF t = <<>> THEN FALSE
    ELSE IF Head(s) = Head(t) THEN IsSubsequence(Tail(s), Tail(t))
    ELSE IsSubsequence(s, Tail(t))

KeptPositions == {d_kept[n] : n \in 1..Len(d_kept)}

Dup(p, q) == is_duplicate(d_records[p], d_records[q], d_threshold)

\* C6: what deduplicate has emitted is a subsequence of its input: each
\* output record is the input record of a position of the input, the positions
\* emitted strictly increase (so none is emitted twice and the input's order
\* is kept), whatever the input and the threshold.
C6_DedupSubsequence ==
    /\ Len(unique_records) = Len(d_kept)
    /\ \A n \in 1..Len(d_kept) :
         /\ d_kept[n] \in 1..Len(d_records)
         /\ unique_records[n] = d_records[d_kept[n]]
    /\ \A m, n \in 1..Len(d_kept) : m < n => d_kept[m] < d_kept[n]
    /\ IsSubsequence(unique_records, d_records)

C6_Witness ==
    /\ d_pc = "done"
    /\ d_pass = 1
    /\ Len(d_records) = 3
    /\ d_kept = <<1, 3>>
    /\ d_records[1] # d_records[3]

\* C7: deduplicate run on its own output with the same threshold returns that
\* output: the same records in the same order.
C7_DedupIdempotent ==
    (d_pc = "done" /\ d_pass = 2) => unique_records = d_first

C7_Witness ==
    /\ d_pc = "done"
    /\ d_pass = 2
    /\ Len(d_input) = 3
    /\ Len(d_first) = 2
    /\ unique_records = d_first

\* C8: the left operand of every comparison is a record that was kept, never
\* a suppressed one; every suppressed record is a direct duplicate of its
\* representative; and for A, B, C in this order with A~B, B~C and not A~C
\* the result is exactly [A, C], B never having been compared with C.
C8_NonTransitive ==
    /\ \A pair \in d_compared :
         /\ pair[1] \in KeptPositions
         /\ d_rep[pair[1]] = pair[1]
         /\ pair[1] < pair[2]
    /\ \A n \in 1..Len(d_records) :
         d_rep[n] \notin {0, n} => (d_rep[n] \in KeptPositions /\ Dup(d_rep[n], n))
    /\ (d_pc = "done" /\ Len(d_records) = 3 /\ Dup(1, 2) /\ Dup(2, 3) /\ ~Dup(1, 3))
         => /\ unique_records = <<d_records[1], d_records[3]>>
            /\ <<2, 3>> \notin d_compared

C8_Witness ==
    /\ d_pc = "done"
    /\ d_pass = 1
    /\ Len(d_records) = 3
    /\ Dup(1, 2) /\ Dup(2, 3) /\ ~Dup(1, 3)
    /\ unique_records = <<d_records[1], d_records[3]>>
    /\ d_compared = {<<1, 2>>, <<1, 3>>}

SameId(p, q) ==
    /\ Truthy(Get(d_records[p], "id"))
    /\ Get(d_records[p], "id") = Get(d_records[q], "id")

NoTwoOutputsShareId ==
    \A m, n \in 1..Len(unique_records) :
        (m # n /\ Truthy(Get(unique_records[m], "id")))
            => Get(unique_records[m], "id") # Get(unique_records[n], "id")

\* C9 as the claim states it: two records with the same non-empty id always
\* have the same representative, and the output never holds two records with
\* the same non-empty id.
C9_ExactKey_AsClaimed ==
    d_pc = "done" =>
        /\ NoTwoOutputsShareId
        /\ \A p, q \in 1..Len(d_records) :
             (p < q /\ SameId(p, q)) => d_rep[p] = d_rep[q]

\* C9: is_duplicate holds of two records with the same non-empty id whatever
\* their other fields are, and the output never holds two records with the
\* same non-empty id; the two have the same representative unless an earlier
\* representative that does not match the other one suppressed one of them.
C9_ExactKey ==
    /\ \A p, q \in 1..Len(d_records) : SameId(p, q) => Dup(p, q)
    /\ NoTwoOutputsShareId
    /\ d_pc = "done" =>
         \A p, q \in 1..Len(d_records) :
            (p < q /\ SameId(p, q)) =>
                \/ d_rep[p] = d_rep[q]
                \/ d_rep[q] < p /\ ~Dup(d_rep[q], p)
                \/ d_rep[p] < p /\ ~Dup(d_rep[p], q)

C9_Witness ==
    /\ d_pc = "done"
    /\ d_pass = 1
    /\ Len(d_records) = 2
    /\ SameId(1, 2)
    /\ ~fuzzy_match_names(d_records[1].company_name, d_records[2].company_name,
                          d_threshold)
    /\ lower(d_records[1].city) # lower(d_records[2].city)
    /\ d_records[1].website # d_records[2].website
    /\ d_rep = <<1, 1>>
    /\ unique_records = <<d_records[1]>>

\* C17: deduplicate leaves its input as it was: while a call runs and after
\* it has returned, the input list has the records it had when the call began,
\* each with the same fields and values, in the same order.
C17_DedupInputUntouched ==
    /\ d_pass = 1 => d_records = d_input
    /\ d_pass = 2 => d_records = d_first

C17_Witness ==
    /\ d_pc = "done"
    /\ d_pass = 1
    /\ Len(d_input) = 3
    /\ Len(unique_records) = 2
    /\ d_records = d_input

\* C26: in what deduplicate returns, the input record at position j is
\* missing exactly when a returned record of an earlier position is a
\* duplicate of it; so the first input record is returned, every record's
\* representative is a returned record of no later position (the survivor of
\* a cluster is its first member), and no returned record is a duplicate of
\* an earlier returned one.
C26_GreedyClustering ==
    d_pc = "done" =>
        /\ \A j \in 1..Len(d_records) :
             j \notin KeptPositions
                <=> \E k \in KeptPositions : k < j /\ Dup(k, j)
        /\ d_records # <<>> => (d_kept[1] = 1 /\ unique_records[1] = d_records[1])
        /\ \A j \in 1..Len(d_records) : d_rep[j] \in KeptPositions /\ d_rep[j] <= j
        /\ \A k, j \in KeptPositions : k < j => ~Dup(k, j)

\* C26 witness: three records, the third a duplicate of the second and not
\* of the first; the first and the second are returned.
C26_Witness ==
    /\ d_pc = "done"
    /\ d_pass = 1
    /\ Len(d_records) = 3
    /\ d_kept = <<1, 2>>
    /\ d_rep = <<1, 2, 2>>
    /\ Dup(2, 3)
    /\ ~Dup(1, 3)
    /\ ~Dup(1, 2)

\* C12: deduplicate never raises, whatever fields its records lack or hold
\* as None, and returns the empty list for the empty input.
C12_DedupTotal ==
    /\ d_pc # "raised"
    /\ (d_pc = "done" /\ d_records = <<>>) => unique_records = <<>>

----------------------------------------------------------------------------
(* Properties of is_duplicate. *)

\* field k of r is there and is neither None nor empty (id and website are
\* held whole, the other fields as characters)
HasText(r, k) ==
    /\ k \in DOMAIN r
    /\ IF k \in {"id", "website"} THEN r[k] \notin {PyNone, ""}
                                  ELSE r[k] \notin {NoneStr, <<>>}

BothHave(k) == HasText(pr_1, k) /\ HasText(pr_2, k)

\* the digits of the phone of r, in order
DigitsOfPhone(r) == SelectSeq(r.phone, LAMBDA c : c \in DIGITS)

SameIdRule == BothHave("id") /\ pr_1.id = pr_2.id

SameWebsiteRule == BothHave("website") /\ pr_1.website = pr_2.website

SamePhoneRule ==
    /\ BothHave("phone")
    /\ DigitsOfPhone(pr_1) # <<>>
    /\ LastChars(DigitsOfPhone(pr_1), 9) = LastChars(DigitsOfPhone(pr_2), 9)

SameCityInAnyCase == BothHave("city") /\ lower(pr_1.city) = lower(pr_2.city)

CityAndNameRule ==
    /\ SameCityInAnyCase
    /\ BothHave("company_name")
    /\ token_set_ratio(normalize_company_name(pr_1.company_name),
                       normalize_company_name(pr_2.company_name)) >= pr_threshold

\* C25: is_duplicate returns true exactly when one of the four rules holds:
\* the same non-empty id; the same non-empty website, compared as written;
\* non-empty phones whose normalized forms are non-empty and equal; non-empty
\* cities equal up to case and a similarity of the normalized names of at
\* least the threshold.  Records whose cities differ and that share no id,
\* website or phone do not match, whatever their names.
C25_DuplicateRules ==
    pr_pc = "done" =>
        /\ pr_dup <=> (SameIdRule \/ SameWebsiteRule \/ SamePhoneRule \/ CityAndNameRule)
        /\ (~SameCityInAnyCase /\ ~SameIdRule /\ ~SameWebsiteRule /\ ~SamePhoneRule)
             => ~pr_dup

\* C25 witness: two records that only the fourth rule joins, their cities
\* written "x" and "X".
C25_Witness ==
    /\ pr_pc = "done"
    /\ pr_dup
    /\ pr_1.city = <<"x">>
    /\ pr_2.city = <<"X">>
    /\ ~SameIdRule /\ ~SameWebsiteRule /\ ~SamePhoneRule
    /\ pr_1.company_name # pr_2.company_name

----------------------------------------------------------------------------
(* Properties of normalize_company_name. *)

\* the legal-entity suffixes the claim names
CLAIMED_SUFFIXES ==
    {<<"g", "m", "b", "h">>, <<"l", "t", "d">>, <<"i", "n", "c">>, <<"a", "g">>,
     <<"s", "a">>, <<"s", "r", "l">>, <<"s", "a", "s">>, <<"s", "a", "r", "l">>,
     <<"e", "u", "r", "l">>}

\* the name in lower case, trimmed, its runs of spaces collapsed
Tidied(name) == collapse_spaces(strip(lower(name)))

\* the last word of a tidied name
RECURSIVE LastWord(_)
LastWord(s) ==
    IF s = <<>> \/ s[Len(s)] = " " THEN <<>>
    ELSE Append(LastWord(SubSeq(s, 1, Len(s) - 1)), s[Len(s)])

\* the tidied name without its last word when that word is a suffix
WithoutSuffixToken(name) ==
    LET t == Tidied(name)
        w == LastWord(t)
    IN IF w \in CLAIMED_SUFFIXES
       THEN strip(SubSeq(t, 1, Len(t) - Len(w)))
       ELSE t

\* C27: normalize_company_name gives the name in lower case, trimmed, its
\* whitespace collapsed, without its last word when that word is one of
\* gmbh, ltd, inc, ag, sa, srl, sas, sarl, eurl, and otherwise unchanged (a
\* last word that only ends in the letters of a suffix stays); X + " gmbh"
\* and X + " sarl" normalize to what X normalizes to.
C27_NormalizeName ==
    nm_pc = "done" =>
        /\ nm_out = WithoutSuffixToken(nm_name)
        /\ nm_gmbh = nm_out
        /\ nm_sarl = nm_out

----------------------------------------------------------------------------
(* Properties of normalize_phone. *)

DigitsOf(s) == SelectSeq(s, IsDigit)

\* n is the last nine digits of phone, or all of them when there are fewer
IsLastNineDigits(n, phone) ==
    LET d == DigitsOf(phone)
    IN /\ Len(n) = Min(9, Len(d))
       /\ \A k \in 1..Len(n) : n[k] = d[Len(d) - Len(n) + k]

\* C10: normalize_phone returns the last nine digits of its input (all of
\* them when there are fewer); two records with non-empty phones match when
\* (and, no other rule applying, only when) the normalized forms are non-empty
\* and equal; "+49 (0)30 1234567" and "0049-30-1234567" both normalize to
\* "301234567" and match.
C10_PhoneRule ==
    /\ ph_pc \in {"normalized", "done"} =>
         /\ IsLastNineDigits(ph_n1, ph_1)
         /\ IsLastNineDigits(ph_n2, ph_2)
    /\ ph_pc = "done" =>
         (ph_dup <=> (ph_1 # <<>> /\ ph_2 # <<>> /\ ph_n1 # <<>> /\ ph_n1 = ph_n2))
    /\ (ph_pc = "done" /\ ph_1 = INTERNATIONAL_PLUS /\ ph_2 = INTERNATIONAL_ZEROS) =>
         /\ ph_n1 = <<"3", "0", "1", "2", "3", "4", "5", "6", "7">>
         /\ ph_n2 = ph_n1
         /\ ph_dup

C10_Witness ==
    /\ ph_pc = "done"
    /\ ph_1 = INTERNATIONAL_PLUS
    /\ ph_2 = INTERNATIONAL_ZEROS
    /\ ph_n1 = ph_n2
    /\ ph_dup

----------------------------------------------------------------------------
(* Properties of the final filter and sort. *)

\* the positions of the classified list whose score is present and at least 7
Qualifying ==
    {n \in 1..Len(fin_classified) :
        /\ "priority_score" \in DOMAIN fin_classified[n]
        /\ fin_classified[n].priority_score \in ScoreTexts
        /\ py_float(fin_classified[n].priority_score) >= 7}

ScoreAt(n) == py_float(fin_classified[n].priority_score)

\* the place of a qualifying position in descending score order, ties in
\* input order
RankOf(n) ==
    1 + Cardinality({m \in Qualifying :
                        \/ ScoreAt(m) > ScoreAt(n)
                        \/ ScoreAt(m) = ScoreAt(n) /\ m < n})

ScoresOf(leads) == [n \in 1..Len(leads) |-> Get(leads[n], "priority_score")]

\* C11: the final list holds exactly the classified records whose
\* priority_score is present and at least 7, by descending score, ties in
\* their input order; for the scores 9, 4, 7, 7 it is the first, third and
\* fourth record.
C11_FinalFilterSort ==
    fin_pc = "done" =>
        /\ Len(final_leads) = Cardinality(Qualifying)
        /\ \A n \in Qualifying : final_leads[RankOf(n)] = fin_classified[n]
        /\ ScoresOf(fin_classified) = <<"9", "4", "7", "7">>
             => final_leads = <<fin_classified[1], fin_classified[3], fin_classified[4]>>

C11_Witness ==
    /\ fin_pc = "done"
    /\ ScoresOf(fin_classified) = <<"9", "4", "7", "7">>
    /\ fin_classified[3] # fin_classified[4]
    /\ final_leads = <<fin_classified[1], fin_classified[3], fin_classified[4]>>

----------------------------------------------------------------------------
(* Properties of main. *)

\* a credential the run needs is missing
MissingCredential == ~maps_key \/ (enable_ai /\ ~api_key)

HasSentinel(leads) ==
    \E n \in 1..Len(leads) : Get(leads[n], "contact_recommendation") = SENTINEL

\* C14: a run that lacks the map-search key, or the classification key while
\* classification is enabled, halts at its start: it makes no search call and
\* no oracle call, marks no record and writes no checkpoint.
C14_MissingCredentialHalts ==
    MissingCredential =>
        /\ m_pc \in {"start", "halted"}
        /\ ~searched
        /\ pc = "idle"
        /\ calls = 0
        /\ writes = 0
        /\ ~HasSentinel(classified_leads)

\* the stages after the deduped set is at hand
LaterStages == {"classify", "save_final", "complete"}

\* C15: a run in resume mode makes no search call, does not call the
\* Deduplicator and writes neither the raw nor the deduped file; what it hands
\* to classify_all (or, classification being off, to the final file) is the
\* rows of the deduped file; when that file does not exist the run halts with
\* no oracle call and no file written.
C15_ResumeMode ==
    /\ [](args_resume => (~searched /\ ~deduplicated /\ raw_leads = <<>>))
    /\ [][args_resume => (raw_file' = raw_file /\ deduped_file' = deduped_file)]_vars
    /\ []((args_resume /\ m_pc \in LaterStages) =>
            /\ deduped_leads = deduped_file.rows
            /\ pc # "idle" => records = deduped_file.rows
            /\ (~enable_ai /\ m_pc # "classify") => final_leads = deduped_file.rows)
    /\ []((args_resume /\ ~deduped_file.exists) =>
            /\ m_pc \in {"start", "halted"}
            /\ pc = "idle"
            /\ calls = 0
            /\ writes = 0)
    /\ [][(args_resume /\ ~deduped_file.exists) =>
            (file' = file /\ final_file' = final_file)]_vars

C15_Witness ==
    /\ args_resume
    /\ enable_ai
    /\ m_pc = "complete"
    /\ Len(deduped_file.rows) = 2
    /\ records = deduped_file.rows
    /\ calls > 0
    /\ ~searched
    /\ ~deduplicated

\* the records of a list as a file holds them: every field of every record,
\* its value as text
AsRows(leads) ==
    [n \in 1..Len(leads) |-> [k \in DOMAIN leads[n] |-> CsvCell(leads[n][k])]]

\* C16: once the run has persisted a list to its stage file, the records of
\* the file are the records of the list, the empty list included: nothing of
\* an earlier run is left in the file.
C16_StageFileIsTheList ==
    /\ searched => load_csv(raw_file) = AsRows(raw_leads)
    /\ deduplicated => load_csv(deduped_file) = AsRows(deduped_leads)
    /\ (m_pc = "classify" /\ pc = "done" /\ writes > 0)
         => load_csv(file) = AsRows(classified_leads)
    /\ m_pc = "complete" => load_csv(final_file) = AsRows(final_leads)

----------------------------------------------------------------------------
(* Properties of save_csv and load_csv                                     *)

\* save_csv has returned or raised on a non-empty list
WroteList == cs_pc \in {"written", "raised", "loaded"} /\ cs_records # <<>>

\* the text a value is written as
CellText(v) == IF v = PyNone THEN "" ELSE v

\* C28: for every non-empty list save_csv writes, the file's columns are the
\* keys of the first record in that order, the file has one row for each
\* record, a record's cell under a column is its value for that key and is
\* empty when the record has no such key, its keys outside the header are
\* not written, and the write does not fail.
C28_WriteRule ==
    WroteList =>
        /\ cs_pc # "raised"
        /\ cs_file.exists
        /\ Len(cs_file.header) = Len(cs_records[1])
        /\ \A m \in 1..Len(cs_records[1]) : cs_file.header[m] = cs_records[1][m][1]
        /\ Len(cs_file.rows) = Len(cs_records)
        /\ \A n \in 1..Len(cs_records) :
              /\ Len(cs_file.rows[n]) = Len(cs_file.header)
              /\ \A m \in 1..Len(cs_file.header) :
                    IF \E q \in 1..Len(cs_records[n]) :
                          cs_records[n][q][1] = cs_file.header[m]
                    THEN \E q \in 1..Len(cs_records[n]) :
                          /\ cs_records[n][q][1] = cs_file.header[m]
                          /\ cs_file.rows[n][m] = CellText(cs_records[n][q][2])
                    ELSE cs_file.rows[n][m] = ""

\* C29: the UID of every record handed to save_csv equals the UID of the
\* same record as load_csv gives it back, whether its id, company_name or
\* city is there, null or absent.
C29_UidRoundTrip ==
    cs_pc = "loaded" =>
        /\ Len(cs_loaded) = Len(cs_records)
        /\ \A n \in 1..Len(cs_records) :
              Uid(AsDict(cs_loaded[n])) = Uid(AsDict(cs_records[n]))

====
